---- MODULE Spec2Model ----
(***************************************************************************)
(* A model of vocab-notebook (package vocabnb): the sqlite store of        *)
(* db.py, the VocabBook session of vocabnb.py, the review run of the       *)
(* `sample` command and the sampler sample_vocab.                           *)
(*                                                                         *)
(* Three specifications share the variables:                               *)
(*   Spec        a client drives one VocabBook session through its API     *)
(*               (as test_vocabnb.py does);                                 *)
(*   RunSpec     one run of the `sample` command, step by step, with an    *)
(*               interruption possible at every step;                      *)
(*   SamplerSpec sample_vocab applied to bounded inputs.                   *)
(***************************************************************************)
EXTENDS Integers, Sequences, FiniteSets, TLC

VARIABLES
    words,              \* table `words`: word -> row (committed state of the store)
    memo,               \* table `memo`: set of rows, primary key (word, date)
    foreign_keys,       \* PRAGMA foreign_keys of the connection
    conn,               \* the session's connection: "none", "open", "closed"
    _need_close,        \* VocabBook._need_close
    _updated_word_fam,  \* VocabBook._updated_word_fam
    _memo,              \* VocabBook._memo
    pc,                 \* position of the client / of the command
    exc_type,           \* the exception __exit__ was called with ("-" before the call)
    outcome,            \* what __exit__ did: "flushed", "discarded", "flush_failed"
    raised,             \* the exception that leaves the with statement
    words0,             \* history: table `words` when the session was entered
    memo0,              \* history: table `memo` when the session was entered
    total_sample,       \* sample(): option --total
    min_sample,         \* sample(): option --min
    today,              \* qa_interface(): datetime.date.today() at midnight
    sampled_words,      \* sample(): the sampled words, in review order
    qi,                 \* sample(): 1-based index of the word under review
    unfamiliar_words,   \* sample(): words handed to review_interface
    familiarity,        \* qa_interface(): familiarity read before the action
    fam_change,         \* qa_interface(): the accepted action
    reviewed,           \* history: words shown by review_interface
    interrupt,          \* history: the interruption raised in the run, "None" if none
    interrupted_at,     \* history: the position at which it was raised
    exit_status,        \* exit status of the command, -1 while it runs
    stderr,             \* what the command wrote to stderr
    do_pronounce,       \* sample(): `do_pronounce and USE_PRONOUNCE and api_key and cachedir`
    prs,                \* sample(): the words that have a pronunciation file (keys of prs)
    load_failed,        \* history: the words load_pronunciation reported as failed
    fam,                \* sample_vocab(): argument fam
    n_words,            \* sample_vocab(): length of argument words
    max_total_vocab,    \* sample_vocab(): argument
    min_non5_vocab,     \* sample_vocab(): argument
    gumbel,             \* sample_vocab(): the noise np.random.gumbel drew
    sample_result,      \* sample_vocab(): what the call did
    call                \* history: the db.py function a client called last, its arguments, the store before it, what it raised

store_vars == <<words, memo, foreign_keys>>
book_vars == <<conn, _need_close, _updated_word_fam, _memo, exc_type, outcome, raised, words0, memo0>>
run_vars == <<total_sample, min_sample, today, do_pronounce, prs, load_failed, sampled_words, qi, unfamiliar_words, familiarity, fam_change, reviewed, interrupt, interrupted_at, exit_status, stderr>>
sampler_vars == <<fam, n_words, max_total_vocab, min_non5_vocab, gumbel, sample_result>>
vars == <<store_vars, book_vars, pc, run_vars, sampler_vars, call>>

----
(* Bounds of the model *)

\* add_fam_update and add_memo calls in one session of Spec
MaxCalls == 3
\* length of the familiarity array given to sample_vocab in SamplerSpec
MaxN == 3

WordIds == {"foo", "bar", "baz"}

\* the datetimes of memo entries
Dates == {1, 2}

----
(* Python values: an int or a str (a sequence of characters) *)

PyInt(n) == [t |-> "int", n |-> n, s |-> <<>>]
PyStr(s) == [t |-> "str", n |-> 0, s |-> s]

Digits == <<"0", "1", "2", "3", "4", "5", "6", "7", "8", "9">>

IsDigit(c) == \E k \in 1..10 : Digits[k] = c

DigitValue(c) == (CHOOSE k \in 1..10 : Digits[k] = c) - 1

RECURSIVE NatToText(_)
NatToText(n) == IF n < 10 THEN <<Digits[n + 1]>> ELSE NatToText(n \div 10) \o <<Digits[(n % 10) + 1]>>

\* str(v): the text of a Python int or str
str(v) == IF v.t = "str" THEN v.s ELSE IF v.n < 0 THEN <<"-">> \o NatToText(-v.n) ELSE NatToText(v.n)

RECURSIVE DigitsToNat(_)
DigitsToNat(s) == IF s = <<>> THEN 0 ELSE 10 * DigitsToNat(SubSeq(s, 1, Len(s) - 1)) + DigitValue(s[Len(s)])

\* whether int(s) succeeds: an optional sign followed by digits
IsIntLiteral(s) ==
    LET body == IF s # <<>> /\ s[1] \in {"+", "-"} THEN Tail(s) ELSE s
    IN  body # <<>> /\ \A k \in 1..Len(body) : IsDigit(body[k])

\* int(s) for a text int(s) accepts
int(s) ==
    IF s[1] = "-" THEN -DigitsToNat(Tail(s))
    ELSE IF s[1] = "+" THEN DigitsToNat(Tail(s))
    ELSE DigitsToNat(s)

int_or_str(value) == IF IsIntLiteral(value) THEN PyInt(int(value)) ELSE PyStr(value)

\* datetime.isoformat(sep): the text of a datetime; insert_memo passes
\* date.isoformat() (separator "T"), executemany binds a datetime through
\* sqlite3's default adapter, which writes isoformat(" ")
isoformat(date, sep) == [day |-> date, sep |-> sep]

adapt_datetime(date) == isoformat(date, " ")

fromisoformat(text) == text.day

\* json.dumps / json.loads of the examples list
json_dumps(examples) == [json |-> examples]

json_loads(text) == text.json

----
(* db.py: the store *)

WordRow(meaning, pronunciation, examples, familiarity_) == [meaning |-> meaning, pronunciation |-> pronunciation, examples |-> json_dumps(examples), familiarity |-> familiarity_]

MemoRow(word, date_text, orig_familiarity, action_text) == [word |-> word, date |-> date_text, orig_familiarity |-> orig_familiarity, action |-> action_text]

\* one INSERT INTO memo: the primary key (word, date) and, with
\* foreign_keys on, the reference to words(word) are checked by the statement
insert_memo_row(m, w, fk, row) ==
    IF \E r \in m : r.word = row.word /\ r.date = row.date
    THEN [raised |-> "IntegrityError", memo |-> m]
    ELSE IF fk /\ row.word \notin DOMAIN w
    THEN [raised |-> "IntegrityError", memo |-> m]
    ELSE [raised |-> "None", memo |-> m \cup {row}]

\* insert_memo: date.isoformat() and str(action) are bound
insert_memo(m, w, fk, word, date, orig_familiarity, action) == insert_memo_row(m, w, fk, MemoRow(word, isoformat(date, "T"), orig_familiarity, str(action)))

\* insert_memos: executemany binds each tuple as it is: the datetime goes
\* through the default adapter, the action is stored in a TEXT column.
\* It stops at the first statement that fails; the rows before it stay in
\* the open transaction.
RECURSIVE insert_memos(_, _, _, _)
insert_memos(m, w, fk, args) ==
    IF args = <<>> THEN [raised |-> "None", memo |-> m]
    ELSE LET a == Head(args)
             r == insert_memo_row(m, w, fk, MemoRow(a.word, adapt_datetime(a.date), a.orig_familiarity, str(a.action)))
         IN  IF r.raised # "None" THEN r ELSE insert_memos(r.memo, w, fk, Tail(args))

\* the familiarity of upsert_word when none is given
DefaultFamiliarity == 5

\* faulty variant: a word that is stored keeps its row
insert_or_ignore(w, word, meaning, pronunciation, examples, familiarity_) == [x \in DOMAIN w \cup {word} |-> IF x \in DOMAIN w THEN w[x] ELSE WordRow(meaning, pronunciation, examples, familiarity_)]

\* upsert_word: INSERT ... ON CONFLICT(word) DO UPDATE SET the four other
\* columns; json.dumps(examples) is bound
upsert_word(w, word, meaning, pronunciation, examples, familiarity_) == [x \in DOMAIN w \cup {word} |-> IF x = word THEN WordRow(meaning, pronunciation, examples, familiarity_) ELSE w[x]]

\* faulty variant: the memo entries of every word are deleted
delete_all_memo(w, m, word) == [words |-> [x \in DOMAIN w \ {word} |-> w[x]], memo |-> {}]

\* faulty variant: the memo entries of the word stay
keep_memo(w, m, word) == [words |-> [x \in DOMAIN w \ {word} |-> w[x]], memo |-> m]

\* delete_word: DELETE FROM memo WHERE word = ?, then DELETE FROM words
\* WHERE word = ?, in one transaction
delete_word(w, m, word) == [words |-> [x \in DOMAIN w \ {word} |-> w[x]], memo |-> {r \in m : r.word # word}]

\* faulty variant: the UPDATE has no WHERE clause
update_every_word(w, familiarity_, word) == [x \in DOMAIN w |-> [w[x] EXCEPT !.familiarity = familiarity_]]

\* update_word_familiarity: UPDATE ... WHERE word = ? changes no row when
\* the word is not in the table
update_word_familiarity(w, familiarity_, word) == IF word \in DOMAIN w THEN [w EXCEPT ![word].familiarity = familiarity_] ELSE w

RECURSIVE executemany_update(_, _)
executemany_update(w, args) ==
    IF args = <<>> THEN w
    ELSE executemany_update(update_word_familiarity(w, Head(args).familiarity, Head(args).word), Tail(args))

\* faulty variant: only the first update of a word is applied
RECURSIVE first_write_wins(_, _)
first_write_wins(w, args) ==
    IF args = <<>> THEN w
    ELSE update_word_familiarity(first_write_wins(w, Tail(args)), Head(args).familiarity, Head(args).word)

\* update_word_familiarities: the updates are executed in list order
update_word_familiarities(w, args) == executemany_update(w, args)

find_word(w, word) ==
    IF word \in DOMAIN w
    THEN <<[word |-> word, meaning |-> w[word].meaning, pronunciation |-> w[word].pronunciation, examples |-> json_loads(w[word].examples), familiarity |-> w[word].familiarity]>>
    ELSE <<>>

find_all_words(w) == {find_word(w, x)[1] : x \in DOMAIN w}

find_all_words_fam(w) == {[word |-> x, familiarity |-> w[x].familiarity] : x \in DOMAIN w}

find_word_memo(m, word) == {[word |-> r.word, date |-> fromisoformat(r.date), orig_familiarity |-> r.orig_familiarity, action |-> int_or_str(r.action)] : r \in {x \in m : x.word = word}}

----
(* vocabnb.py: class VocabBook *)

\* faulty variant: the block's changes stay although the block raised
no_rollback(before, after, exc) == after

\* faulty variant: the block's changes are never committed
never_commit(before, after, exc) == before

\* `with self.conn:` (sqlite3.Connection as a context manager): the
\* transaction is committed when the block ends without an exception and
\* rolled back when it raises
with_conn(before, after, exc) == IF exc = "None" THEN after ELSE before

\* the block of __exit__: the familiarity updates, then the memo entries
flush(w, m, fk, updated_word_fam, memo_args) ==
    LET w1 == update_word_familiarities(w, updated_word_fam)
        r == insert_memos(m, w1, fk, memo_args)
    IN  [raised |-> r.raised, store |-> with_conn([words |-> w, memo |-> m], [words |-> w1, memo |-> r.memo], r.raised)]

\* faulty variant: the flush happens however the scope is left
always_commit(exc) == TRUE

\* __exit__: "Commit change only if no error happens."
should_commit(exc) == exc = "None"

\* VocabBook.__init__: db_file is a sqlite3.Connection or a path; for a
\* path the session connects and runs init_db_if_not_exists, which sets
\* PRAGMA foreign_keys = ON on the new connection
__init__(db_file) ==
    /\ conn' = "open"
    /\ IF db_file = "Connection"
       THEN _need_close' = FALSE /\ UNCHANGED foreign_keys
       ELSE _need_close' = TRUE /\ foreign_keys' = TRUE
    /\ _updated_word_fam' = <<>>
    /\ _memo' = <<>>
    /\ UNCHANGED <<words, memo, exc_type, outcome, raised, words0, memo0>>

\* VocabBook.__enter__ returns self; the history variables keep the store
\* as it is when the scope is entered
__enter__ ==
    /\ words0' = words
    /\ memo0' = memo
    /\ UNCHANGED <<store_vars, conn, _need_close, _updated_word_fam, _memo, exc_type, outcome, raised>>

\* faulty variant: the update is written to the store at once
write_through(familiarity_, word) ==
    /\ _updated_word_fam' = Append(_updated_word_fam, [familiarity |-> familiarity_, word |-> word])
    /\ words' = update_word_familiarity(words, familiarity_, word)
    /\ UNCHANGED <<memo, foreign_keys, conn, _need_close, _memo, exc_type, outcome, raised, words0, memo0>>

add_fam_update(familiarity_, word) ==
    /\ _updated_word_fam' = Append(_updated_word_fam, [familiarity |-> familiarity_, word |-> word])
    /\ UNCHANGED <<store_vars, conn, _need_close, _memo, exc_type, outcome, raised, words0, memo0>>

\* faulty variant: the decision leaves no memo entry
no_memo(word, date, orig_familiarity, action) == UNCHANGED <<store_vars, book_vars>>

add_memo(word, date, orig_familiarity, action) ==
    /\ _memo' = Append(_memo, [word |-> word, date |-> date, orig_familiarity |-> orig_familiarity, action |-> action])
    /\ UNCHANGED <<store_vars, conn, _need_close, _updated_word_fam, exc_type, outcome, raised, words0, memo0>>

\* VocabBook.__exit__: it returns None, so an exception of the scope goes on
\* to the caller; an exception of the flush leaves __exit__ before the
\* connection is closed
__exit__(exc) ==
    LET r == flush(words, memo, foreign_keys, _updated_word_fam, _memo)
    IN  /\ exc_type' = exc
        /\ IF should_commit(exc)
           THEN /\ words' = r.store.words
                /\ memo' = r.store.memo
                /\ raised' = r.raised
                /\ outcome' = IF r.raised = "None" THEN "flushed" ELSE "flush_failed"
                /\ conn' = IF r.raised = "None" /\ _need_close THEN "closed" ELSE conn
           ELSE /\ UNCHANGED <<words, memo>>
                /\ raised' = exc
                /\ outcome' = "discarded"
                /\ conn' = IF _need_close THEN "closed" ELSE conn
        /\ UNCHANGED <<foreign_keys, _need_close, _updated_word_fam, _memo, words0, memo0>>

----
(* Stores the program can be in, after test_vocabnb.py's fixture *)

Foo == WordRow("Foo", <<>>, <<"foo bar baz">>, 4)

Bar == WordRow("Bar", <<"B-a-r">>, <<"bar baz qux", "lorem">>, 5)

Baz == WordRow("Baz", <<"B-a-z">>, <<>>, 1)

InitWords == {("foo" :> Foo) @@ ("bar" :> Bar) @@ ("baz" :> Baz), ("foo" :> Foo) @@ ("bar" :> Bar)}

\* no memo; or one entry written by insert_memo and one by an earlier flush
InitMemos == {{}, {MemoRow("foo", isoformat(1, "T"), 5, <<"+">>), MemoRow("foo", adapt_datetime(2), 4, <<"-">>)}}

IdleBook ==
    /\ conn = "none"
    /\ _need_close = FALSE
    /\ _updated_word_fam = <<>>
    /\ _memo = <<>>
    /\ exc_type = "-"
    /\ outcome = "none"
    /\ raised = "None"
    /\ words0 = words
    /\ memo0 = memo

IdleRun ==
    /\ total_sample = 0
    /\ min_sample = 0
    /\ today = 0
    /\ sampled_words = <<>>
    /\ qi = 0
    /\ unfamiliar_words = <<>>
    /\ familiarity = 0
    /\ fam_change = PyStr(<<>>)
    /\ reviewed = <<>>
    /\ interrupt = "None"
    /\ interrupted_at = "-"
    /\ exit_status = -1
    /\ stderr = <<>>
    /\ do_pronounce = FALSE
    /\ prs = {}
    /\ load_failed = {}

IdleSampler ==
    /\ fam = <<>>
    /\ n_words = 0
    /\ max_total_vocab = 0
    /\ min_non5_vocab = 0
    /\ gumbel = <<>>
    /\ sample_result = [status |-> "none", j |-> <<>>]

\* no db.py function was called by a client yet
NoCall == [name |-> "none", seq |-> 0, word |-> "", args |-> <<>>, raised |-> "None", words |-> <<>>, memo |-> {}]

IdleDb == call = NoCall

----
(* Spec: a client uses one VocabBook session through its API *)

\* arguments the client passes
FamArgs == {3, 4}

ArgWords == {"foo", "baz"}

MemoArgs == {[orig_familiarity |-> 4, action |-> PyStr(<<"+">>)], [orig_familiarity |-> 1, action |-> PyInt(3)]}

Init ==
    /\ words \in InitWords
    /\ memo \in InitMemos
    /\ foreign_keys \in BOOLEAN
    /\ pc = "start"
    /\ IdleDb
    /\ IdleBook
    /\ IdleRun
    /\ IdleSampler

Construct ==
    /\ pc = "start"
    /\ \E db_file \in {"Connection", "Path"} : __init__(db_file)
    /\ pc' = "constructed"
    /\ UNCHANGED <<run_vars, sampler_vars, call>>

Enter ==
    /\ pc = "constructed"
    /\ __enter__
    /\ pc' = "entered"
    /\ UNCHANGED <<run_vars, sampler_vars, call>>

CallAddFamUpdate ==
    /\ pc = "entered"
    /\ Len(_updated_word_fam) + Len(_memo) < MaxCalls
    /\ \E f \in FamArgs, w \in ArgWords : add_fam_update(f, w)
    /\ UNCHANGED <<pc, run_vars, sampler_vars, call>>

CallAddMemo ==
    /\ pc = "entered"
    /\ Len(_updated_word_fam) + Len(_memo) < MaxCalls
    /\ \E w \in ArgWords, d \in Dates, a \in MemoArgs : add_memo(w, d, a.orig_familiarity, a.action)
    /\ UNCHANGED <<pc, run_vars, sampler_vars, call>>

\* the scope ends: its last statement was executed
ExitNormally ==
    /\ pc = "entered"
    /\ __exit__("None")
    /\ pc' = "exited"
    /\ UNCHANGED <<run_vars, sampler_vars, call>>

\* the scope ends: an exception is raised in it
ExitWithException ==
    /\ pc = "entered"
    /\ __exit__("KeyboardInterrupt")
    /\ pc' = "exited"
    /\ UNCHANGED <<run_vars, sampler_vars, call>>

Next ==
    \/ Construct
    \/ Enter
    \/ CallAddFamUpdate
    \/ CallAddMemo
    \/ ExitNormally
    \/ ExitWithException

Spec == Init /\ [][Next]_vars

----
(* Properties of the session *)

\* the words that have a pending familiarity update
Updated == {_updated_word_fam[k].word : k \in 1..Len(_updated_word_fam)}

\* the familiarity of the last pending update of word w
LastUpdate(w) == _updated_word_fam[CHOOSE k \in 1..Len(_updated_word_fam) : _updated_word_fam[k].word = w /\ \A l \in (k + 1)..Len(_updated_word_fam) : _updated_word_fam[l].word # w].familiarity

\* what find_word_memo returns for a pending memo entry that was stored
AsFound(e) == [word |-> e.word, date |-> e.date, orig_familiarity |-> e.orig_familiarity, action |-> e.action]

\* whether the memo inserts of the flush fail on the store as entered
FlushFails == insert_memos(memo0, update_word_familiarities(words0, _updated_word_fam), foreign_keys, _memo).raised # "None"

\* C1: when the session scope is left with an exception, after any
\* add_fam_update and add_memo calls, tables words and memo are as they were
\* when the session was entered.
C1_AbnormalExitDiscards == (pc = "exited" /\ exc_type # "None") => (words = words0 /\ memo = memo0)

C1_Witness == pc = "exited" /\ exc_type = "KeyboardInterrupt" /\ _memo # <<>> /\ update_word_familiarities(words0, _updated_word_fam) # words0

\* C2 as stated: after every normal exit each word with a pending update has
\* the recorded familiarity, the other words are unchanged, and every pending
\* memo entry is in table memo.
C2_NormalExitPersists ==
    (pc = "exited" /\ exc_type = "None") =>
        /\ \A w \in Updated : w \in DOMAIN words /\ words[w].familiarity = LastUpdate(w)
        /\ \A k \in 1..Len(_memo) : AsFound(_memo[k]) \in find_word_memo(memo, _memo[k].word)
        /\ \A w \in DOMAIN words0 \ Updated : w \in DOMAIN words /\ words[w] = words0[w]
        /\ memo0 \subseteq memo

\* C2 amended: after a normal exit whose flush raises no error, each stored
\* word with a pending update has the familiarity of its last recorded
\* update and its other attributes unchanged, every other word is unchanged,
\* no word is added or removed, every pending memo entry is found with the
\* word, timestamp, original familiarity and action it was recorded with, and
\* the memo entries of before the session are still there.
C2_SuccessfulFlushPersists ==
    (pc = "exited" /\ exc_type = "None" /\ raised = "None") =>
        /\ DOMAIN words = DOMAIN words0
        /\ \A w \in DOMAIN words \cap Updated : words[w] = [words0[w] EXCEPT !.familiarity = LastUpdate(w)]
        /\ \A w \in DOMAIN words \ Updated : words[w] = words0[w]
        /\ \A k \in 1..Len(_memo) : AsFound(_memo[k]) \in find_word_memo(memo, _memo[k].word)
        /\ memo0 \subseteq memo

C2_Witness ==
    /\ pc = "exited" /\ exc_type = "None" /\ raised = "None"
    /\ words # words0
    /\ Len(_memo) = 2
    /\ memo0 # {}

\* C3: when the memo inserts of the flush fail after the familiarity updates
\* were issued, no update and no memo entry of the flush is in the store, and
\* the error goes to the caller.
C3_FailedFlushIsAtomic == (pc = "exited" /\ exc_type = "None" /\ FlushFails) => (words = words0 /\ memo = memo0 /\ raised = "IntegrityError" /\ outcome = "flush_failed")

\* a failed flush whose updates would have changed a word and whose first
\* memo insert succeeded before a later one failed
C3_Witness ==
    /\ pc = "exited" /\ exc_type = "None" /\ FlushFails
    /\ update_word_familiarities(words0, _updated_word_fam) # words0
    /\ Len(_memo) >= 2
    /\ insert_memos(memo0, words0, foreign_keys, SubSeq(_memo, 1, 1)).raised = "None"

C6_ClosedOnEveryExit == (pc = "exited") => (conn = IF _need_close THEN "closed" ELSE "open")

----
(* DbSpec: a client calls the functions of db.py on a connection, as
   test_db.py does *)

\* calls of db.py functions in one behaviour of DbSpec
MaxDbCalls == 3

DbWords == {"foo", "baz"}

\* what the client passes to upsert_word; `given` tells whether the
\* familiarity argument is passed
UpsertArgs == {
    [meaning |-> "Baz", pronunciation |-> <<"B-a-z">>, examples |-> <<>>, given |-> TRUE, familiarity |-> 1],
    [meaning |-> "Baz", pronunciation |-> <<"B-a-z">>, examples |-> <<"hello world">>, given |-> TRUE, familiarity |-> 2],
    [meaning |-> "Bar", pronunciation |-> <<>>, examples |-> <<"bar baz qux", "lorem">>, given |-> FALSE, familiarity |-> 0]}

\* the lists the client passes to update_word_familiarities
BatchArgs == {
    <<[familiarity |-> 3, word |-> "foo"], [familiarity |-> 2, word |-> "baz"]>>,
    <<[familiarity |-> 3, word |-> "baz"], [familiarity |-> 1, word |-> "baz"]>>}

\* the lists the client passes to insert_memos
MemoBatches == {
    <<[word |-> "foo", date |-> 1, orig_familiarity |-> 4, action |-> PyStr(<<"-">>)]>>,
    <<[word |-> "baz", date |-> 2, orig_familiarity |-> 1, action |-> PyInt(3)], [word |-> "foo", date |-> 2, orig_familiarity |-> 4, action |-> PyStr(<<"+">>)]>>}

\* how the scope of a session on the connection is left
ScopeExits == {"None", "KeyboardInterrupt"}

Called(name, word, args, exc) == call' = [name |-> name, seq |-> call.seq + 1, word |-> word, args |-> args, raised |-> exc, words |-> words, memo |-> memo]

DbInit ==
    /\ words \in InitWords
    /\ memo \in InitMemos
    /\ foreign_keys \in BOOLEAN
    /\ pc = "db"
    /\ IdleDb
    /\ IdleBook
    /\ IdleRun
    /\ IdleSampler

DbUpsertWord ==
    /\ call.seq < MaxDbCalls
    /\ \E word \in DbWords, a \in UpsertArgs :
        /\ words' = upsert_word(words, word, a.meaning, a.pronunciation, a.examples, IF a.given THEN a.familiarity ELSE DefaultFamiliarity)
        /\ Called("upsert_word", word, <<a>>, "None")
    /\ UNCHANGED <<memo, foreign_keys, book_vars, pc, run_vars, sampler_vars>>

\* insert_memo in its own transaction: a failed INSERT changes nothing
DbInsertMemo ==
    /\ call.seq < MaxDbCalls
    /\ \E word \in DbWords, d \in Dates, a \in MemoArgs :
        LET r == insert_memo(memo, words, foreign_keys, word, d, a.orig_familiarity, a.action)
        IN  /\ memo' = r.memo
            /\ Called("insert_memo", word, <<d, a>>, r.raised)
    /\ UNCHANGED <<words, foreign_keys, book_vars, pc, run_vars, sampler_vars>>

DbDeleteWord ==
    /\ call.seq < MaxDbCalls
    /\ \E word \in DbWords :
        /\ words' = delete_word(words, memo, word).words
        /\ memo' = delete_word(words, memo, word).memo
        /\ Called("delete_word", word, <<>>, "None")
    /\ UNCHANGED <<foreign_keys, book_vars, pc, run_vars, sampler_vars>>

DbUpdateWordFamiliarity ==
    /\ call.seq < MaxDbCalls
    /\ \E f \in FamArgs, word \in DbWords :
        /\ words' = update_word_familiarity(words, f, word)
        /\ Called("update_word_familiarity", word, <<f>>, "None")
    /\ UNCHANGED <<memo, foreign_keys, book_vars, pc, run_vars, sampler_vars>>

DbUpdateWordFamiliarities ==
    /\ call.seq < MaxDbCalls
    /\ \E args \in BatchArgs :
        /\ words' = update_word_familiarities(words, args)
        /\ Called("update_word_familiarities", "", args, "None")
    /\ UNCHANGED <<memo, foreign_keys, book_vars, pc, run_vars, sampler_vars>>

\* insert_memos in its own transaction: when a statement of the batch fails
\* the rows of the statements before it are rolled back
DbInsertMemos ==
    /\ call.seq < MaxDbCalls
    /\ \E args \in MemoBatches :
        LET r == insert_memos(memo, words, foreign_keys, args)
        IN  /\ memo' = with_conn(memo, r.memo, r.raised)
            /\ Called("insert_memos", "", args, r.raised)
    /\ UNCHANGED <<words, foreign_keys, book_vars, pc, run_vars, sampler_vars>>

\* a session on the connection, from VocabBook(conn) to the end of its
\* scope, with the pending lists its calls built: __exit__ flushes them or,
\* when the scope is left with an exception, skips the flush
DbSession ==
    /\ call.seq < MaxDbCalls
    /\ \E updated_word_fam \in BatchArgs, memo_args \in MemoBatches, exc \in ScopeExits :
        LET r == flush(words, memo, foreign_keys, updated_word_fam, memo_args)
        IN  IF should_commit(exc)
            THEN /\ words' = r.store.words
                 /\ memo' = r.store.memo
                 /\ Called("session", "", <<updated_word_fam, memo_args>>, r.raised)
            ELSE /\ UNCHANGED <<words, memo>>
                 /\ Called("session", "", <<updated_word_fam, memo_args>>, exc)
    /\ UNCHANGED <<foreign_keys, book_vars, pc, run_vars, sampler_vars>>

DbNext ==
    \/ DbUpsertWord
    \/ DbInsertMemo
    \/ DbInsertMemos
    \/ DbDeleteWord
    \/ DbUpdateWordFamiliarity
    \/ DbUpdateWordFamiliarities
    \/ DbSession

DbSpec == DbInit /\ [][DbNext]_vars

----
(* Properties of the functions of db.py *)

\* every word but w has the row it had before the call
OthersUnchanged(w) == \A x \in DOMAIN call.words \ {w} : x \in DOMAIN words /\ words[x] = call.words[x]

\* C18: delete_word(w) removes the row of w and every memo entry of w, and
\* leaves the rows and the memo entries of the other words as they were.
C18_DeleteWordCascades ==
    call.name = "delete_word" =>
        /\ find_word(words, call.word) = <<>>
        /\ find_word_memo(memo, call.word) = {}
        /\ DOMAIN words = DOMAIN call.words \ {call.word}
        /\ OthersUnchanged(call.word)
        /\ memo = {r \in call.memo : r.word # call.word}
        /\ call.raised = "None"

\* foo is deleted with its two memo entries; another word and a memo entry
\* of another word are left
C18_Witness ==
    /\ call.name = "delete_word" /\ call.word = "foo"
    /\ Cardinality({r \in call.memo : r.word = "foo"}) = 2
    /\ "foo" \in DOMAIN call.words
    /\ "bar" \in DOMAIN words
    /\ \E r \in memo : r.word = "baz"

\* C19: after upsert_word, find_word of the word returns the meaning,
\* pronunciation, examples and familiarity that were given, familiarity 5
\* when none was given; an existing word has its four attributes replaced;
\* the word has one record and the other words are unchanged.
C19_UpsertThenFind ==
    call.name = "upsert_word" =>
        LET a == call.args[1]
        IN  /\ find_word(words, call.word) = <<[word |-> call.word, meaning |-> a.meaning, pronunciation |-> a.pronunciation, examples |-> a.examples, familiarity |-> IF a.given THEN a.familiarity ELSE 5]>>
            /\ Cardinality({r \in find_all_words(words) : r.word = call.word}) = 1
            /\ DOMAIN words = DOMAIN call.words \cup {call.word}
            /\ OthersUnchanged(call.word)

\* a stored word is upserted without a familiarity: its meaning,
\* pronunciation, examples and familiarity are all replaced
C19_Witness ==
    /\ call.name = "upsert_word" /\ call.word = "baz"
    /\ "baz" \in DOMAIN call.words
    /\ ~call.args[1].given
    /\ find_word(call.words, "baz")[1] = [word |-> "baz", meaning |-> "Baz", pronunciation |-> <<"B-a-z">>, examples |-> <<>>, familiarity |-> 1]
    /\ find_word(words, "baz")[1] = [word |-> "baz", meaning |-> "Bar", pronunciation |-> <<>>, examples |-> <<"bar baz qux", "lorem">>, familiarity |-> 5]
    /\ Cardinality(DOMAIN words) = 3

\* the familiarity the list args gives last to word x
LastOf(args, x) == args[CHOOSE k \in 1..Len(args) : args[k].word = x /\ \A l \in (k + 1)..Len(args) : args[l].word # x].familiarity

HasEntry(m, word, date) == \E r \in m : r.word = word /\ fromisoformat(r.date) = date

\* whether an entry of the list args meets an entry of m on (word, timestamp)
MeetsEntry(m, args) == \E k \in 1..Len(args) : HasEntry(m, args[k].word, args[k].date)

\* C21: table memo never holds two entries of one word at one timestamp;
\* insert_memo, insert_memos and the flush of a session raise an error and
\* leave the table as it was when the word already has an entry at the
\* timestamp.
C21_OneEntryPerTimestamp ==
    /\ \A r1, r2 \in memo : (r1.word = r2.word /\ fromisoformat(r1.date) = fromisoformat(r2.date)) => r1 = r2
    /\ (call.name = "insert_memo" /\ HasEntry(call.memo, call.word, call.args[1])) => (call.raised = "IntegrityError" /\ memo = call.memo)
    /\ (call.name = "insert_memos" /\ MeetsEntry(call.memo, call.args)) => (call.raised = "IntegrityError" /\ memo = call.memo)
    /\ (call.name = "session" /\ call.raised # "KeyboardInterrupt" /\ MeetsEntry(call.memo, call.args[2])) => (call.raised = "IntegrityError" /\ memo = call.memo)

\* C26: a memo entry that is in the table before a call is in it, unchanged,
\* after the call, unless the call is delete_word of the entry's word: so it
\* is for upsert_word of a word with memo entries, for the familiarity
\* updates, for the memo inserts and for a session, whether its flush
\* succeeds, fails or is skipped.
C26_MemoAppendOnly ==
    call.name # "none" =>
        \A r \in call.memo : r \in memo \/ (call.name = "delete_word" /\ r.word = call.word)

\* foo, which has two memo entries, is upserted with other attributes
C26_Witness ==
    /\ call.name = "upsert_word" /\ call.word = "foo"
    /\ "foo" \in DOMAIN call.words
    /\ words["foo"] # call.words["foo"]
    /\ Cardinality({r \in call.memo : r.word = "foo"}) >= 2
    /\ \E r \in memo : r.word # "foo"

\* C27: on a connection on which init_db_if_not_exists ran (foreign keys
\* are enforced), the word of every memo entry is the key of a row of table
\* words, after any sequence of calls; a memo insert for a word that is not
\* stored is rejected, by insert_memo, by insert_memos and by the flush of
\* a session.
C27_MemoReferencesWord ==
    foreign_keys =>
        /\ \A r \in memo : r.word \in DOMAIN words
        /\ (call.name = "insert_memo" /\ call.word \notin DOMAIN call.words) => (call.raised = "IntegrityError" /\ memo = call.memo)
        /\ (call.name = "insert_memos" /\ \E k \in 1..Len(call.args) : call.args[k].word \notin DOMAIN call.words) => (call.raised = "IntegrityError" /\ memo = call.memo)
        /\ (call.name = "session" /\ call.raised # "KeyboardInterrupt" /\ \E k \in 1..Len(call.args[2]) : call.args[2][k].word \notin DOMAIN call.words) => (call.raised = "IntegrityError" /\ memo = call.memo /\ words = call.words)

\* foo was deleted with its memo entries, and a memo insert for it is
\* rejected while memo entries of another word are stored
C27_Witness ==
    /\ foreign_keys
    /\ call.name = "insert_memo" /\ call.word = "foo"
    /\ "foo" \notin DOMAIN words
    /\ call.raised = "IntegrityError"
    /\ memo # {}

----
(* vocabnb.py: sample_vocab.  Indices are 1-based here, 0-based in numpy.  *)

min(a, b) == IF a <= b THEN a ELSE b

max(a, b) == IF a >= b THEN a ELSE b

\* the value written over the familiarity of the words of score 5
Masked == -999999999

\* np.nonzero(fam == 5)[0]: the indices of score 5, ascending
RECURSIVE nonzero_eq5(_, _)
nonzero_eq5(fam_, i) ==
    IF i > Len(fam_) THEN <<>>
    ELSE (IF fam_[i] = 5 THEN <<i>> ELSE <<>>) \o nonzero_eq5(fam_, i + 1)

\* faulty variant: the draw is not limited to the words below 5
unclamped_samples(n, n5, max_total, min_non5) == max(max_total - n5, min_non5)

n_non5_samples(n, n5, max_total, min_non5) == min(n - n5, max(max_total - n5, min_non5))

\* faulty variant: the familiarity is subtracted from the noise
noise_minus_fam(fam_, gg) == [i \in 1..Len(fam_) |-> -(gg[i] + (IF fam_[i] = 5 THEN Masked ELSE -fam_[i]))]

\* gg after `gg += fam.astype(float)` and `gg *= -1`, with fam[j5] masked
perturbed(fam_, gg) == [i \in 1..Len(fam_) |-> -(gg[i] + (IF fam_[i] = 5 THEN Masked ELSE fam_[i]))]

\* np.argsort(gg): the permutations that sort gg ascending (equal values in
\* any order)
argsort(gg) == {p \in Permutations(1..Len(gg)) : \A a, b \in 1..Len(gg) : a < b => gg[p[a]] <= gg[p[b]]}

\* a[:k], k of any sign
slice_to(a, k) == IF k >= 0 THEN SubSeq(a, 1, min(k, Len(a))) ELSE SubSeq(a, 1, max(0, Len(a) + k))

\* np.random.shuffle(j) with the permutation q it draws
shuffle(j, q) == [i \in 1..Len(j) |-> j[q[i]]]

\* sample_vocab, given what the random source draws: the noise gg, the order
\* p argsort returns and the permutation q of the shuffle.  words[j] raises
\* IndexError when an index is beyond the words array.
sample_vocab(n_words_, fam_, max_total, min_non5, gg, p, q) ==
    LET n == Len(fam_)
        j5 == nonzero_eq5(fam_, 1)
        n5 == Len(j5)
        jnon5 == slice_to(p, n_non5_samples(n, n5, max_total, min_non5))
        j == shuffle(j5 \o jnon5, q)
    IN  IF \E i \in 1..Len(j) : j[i] > n_words_
        THEN [status |-> "IndexError", j |-> <<>>]
        ELSE [status |-> "returned", j |-> j]

\* the triples (gg, p, q) the random source can draw in a call
Noise == {0, 4}

\* the number of indices sample_vocab concatenates before the shuffle
n_sampled(fam_, max_total, min_non5) == Len(nonzero_eq5(fam_, 1)) + Len(slice_to(fam_, n_non5_samples(Len(fam_), Len(nonzero_eq5(fam_, 1)), max_total, min_non5)))

----
(* SamplerSpec: sample_vocab applied to bounded inputs *)

FamScores == {1, 4, 5}

TotalArgs == {-1, 1, 3}

MinArgs == {-1, 0, 2}

\* the lengths of the words array: that of fam, and, with counts that are
\* not negative, one less and one more
WordsLengths(fam_, max_total, min_non5) == {Len(fam_)} \cup (IF max_total >= 0 /\ min_non5 >= 0 THEN {k \in {Len(fam_) - 1, Len(fam_) + 1} : k >= 0} ELSE {})

SamplerInit ==
    /\ words = <<>>
    /\ memo = {}
    /\ foreign_keys = FALSE
    /\ IdleDb
    /\ IdleBook
    /\ IdleRun
    /\ pc = "call"
    /\ fam \in UNION {[1..n -> FamScores] : n \in 0..MaxN}
    /\ max_total_vocab \in TotalArgs
    /\ min_non5_vocab \in MinArgs
    /\ n_words \in WordsLengths(fam, max_total_vocab, min_non5_vocab)
    /\ gumbel = <<>>
    /\ sample_result = [status |-> "none", j |-> <<>>]

SampleVocab ==
    /\ pc = "call"
    /\ \E gg \in [1..Len(fam) -> Noise] :
        \E p \in argsort(perturbed(fam, gg)) :
            \E q \in Permutations(1..n_sampled(fam, max_total_vocab, min_non5_vocab)) :
                /\ gumbel' = gg
                /\ sample_result' = sample_vocab(n_words, fam, max_total_vocab, min_non5_vocab, gg, p, q)
    /\ pc' = "returned"
    /\ UNCHANGED <<store_vars, book_vars, run_vars, fam, n_words, max_total_vocab, min_non5_vocab, call>>

SamplerNext == SampleVocab

SamplerSpec == SamplerInit /\ [][SamplerNext]_vars

----
(* Properties of sample_vocab *)

N == Len(fam)

N5 == Cardinality({i \in 1..Len(fam) : fam[i] = 5})

clamp(x, lo, hi) == IF x < lo THEN lo ELSE IF x > hi THEN hi ELSE x

\* how often index i is in the result
Occurrences(i) == Cardinality({k \in 1..Len(sample_result.j) : sample_result.j[k] = i})

\* C7: for N words of which N5 have score 5, and every max_total_vocab and
\* min_non5_vocab, sample_vocab returns, without error, exactly N5 + k words,
\* k = clamp(max(max_total_vocab - N5, min_non5_vocab), 0, N - N5).
C7_SampleSize ==
    (pc = "returned" /\ n_words = N) =>
        /\ sample_result.status = "returned"
        /\ Len(sample_result.j) = N5 + clamp(max(max_total_vocab - N5, min_non5_vocab), 0, N - N5)

\* C8: every word of familiarity 5 is in the result exactly once, for every
\* max_total_vocab and min_non5_vocab.
C8_EveryFiveOnce ==
    (pc = "returned" /\ n_words = N) =>
        /\ sample_result.status = "returned"
        /\ \A i \in 1..N : fam[i] = 5 => Occurrences(i) = 1

\* C9: the result never holds an index twice, and the number of words drawn
\* beside those of familiarity 5 never exceeds the number of words below 5.
C9_NoIndexTwice ==
    (pc = "returned" /\ n_words = N) =>
        /\ \A i \in 1..N : Occurrences(i) <= 1
        /\ Len(sample_result.j) - N5 <= N - N5

\* C10: with a negative max_total_vocab or min_non5_vocab, or with words and
\* fam of different lengths, sample_vocab raises an error and returns nothing.
C10_FailsFast ==
    (pc = "returned" /\ (max_total_vocab < 0 \/ min_non5_vocab < 0 \/ n_words # N)) =>
        sample_result.status # "returned"

\* On the inputs sample() can pass with a non-negative --min (arrays of one
\* length), C7, C8 and C9 hold of the code.
ValidInput == n_words = N /\ min_non5_vocab >= 0

SampleSizeOnValidInput == (pc = "returned" /\ ValidInput) => C7_SampleSize

EveryFiveOnceOnValidInput == (pc = "returned" /\ ValidInput) => C8_EveryFiveOnce

NoIndexTwiceOnValidInput == (pc = "returned" /\ ValidInput) => C9_NoIndexTwice

\* the optional words (familiarity below 5) that are in the result
SelectedOptional == {i \in 1..N : fam[i] < 5 /\ Occurrences(i) >= 1}

\* the optional words that are not in the result
UnselectedOptional == {i \in 1..N : fam[i] < 5 /\ Occurrences(i) = 0}

\* C11 as stated: the optional words selected are those with the largest
\* noise minus familiarity, so that with equal noise the word of lower
\* familiarity is selected first.
C11_LowerFamiliarityFirst ==
    (pc = "returned" /\ sample_result.status = "returned") =>
        \A i \in SelectedOptional, u \in UnselectedOptional : gumbel[i] - fam[i] >= gumbel[u] - fam[u]

\* C11 amended: the optional words selected are those with the largest
\* noise plus familiarity (the familiarity is added, not negated): no
\* optional word left out has a larger sum than one selected, so that
\* between two optional words with equal noise of which one is selected, it
\* is the one with the higher familiarity score.
C11_HigherFamiliarityFirst ==
    (pc = "returned" /\ sample_result.status = "returned") =>
        /\ \A i \in SelectedOptional, u \in UnselectedOptional : gumbel[i] + fam[i] >= gumbel[u] + fam[u]
        /\ \A i \in SelectedOptional, u \in UnselectedOptional : gumbel[i] = gumbel[u] => fam[i] >= fam[u]

\* two optional words with equal noise and different familiarity, of which
\* only the one with the higher familiarity was selected
C11_Witness ==
    /\ pc = "returned" /\ sample_result.status = "returned" /\ ValidInput
    /\ \E i \in SelectedOptional, u \in UnselectedOptional : gumbel[i] = gumbel[u] /\ fam[i] > fam[u]

----
(* vocabnb.py: qa_interface, review_interface and the command `sample` *)

\* faulty variant: the digit 0 is accepted too
accepted_with_zero == <<".", "-", "=", "+", "0", "1", "2", "3", "4", "5">>

accepted_action == <<".", "-", "=", "+", "1", "2", "3", "4", "5">>

\* s in t, for Python strings
IsSubstring(s_, t_) == \E i \in 0..(Len(t_) - Len(s_)) : SubSeq(t_, i + 1, i + Len(s_)) = s_

\* the condition of the while loop that repeats the prompt
rejected(text) == text = <<>> \/ ~IsSubstring(text, accepted_action)

\* `if fam_change not in '.-=+'`: the text goes through int()
is_number(text) == ~IsSubstring(text, <<".", "-", "=", "+">>)

\* faulty variant: the new familiarity is not kept within 1..5
unclamped_fam(familiarity_, action) ==
    IF action = PyStr(<<".">>) THEN PyInt(familiarity_)
    ELSE IF action = PyStr(<<"-">>) THEN PyInt(familiarity_ - 1)
    ELSE IF action = PyStr(<<"=">>) THEN PyInt(familiarity_ + 2)
    ELSE IF action = PyStr(<<"+">>) THEN PyInt(5)
    ELSE action

\* the familiarity the action gives; a str that is none of the four
\* symbols is returned as it is
new_fam(familiarity_, action) ==
    IF action = PyStr(<<".">>) THEN PyInt(familiarity_)
    ELSE IF action = PyStr(<<"-">>) THEN PyInt(max(1, familiarity_ - 1))
    ELSE IF action = PyStr(<<"=">>) THEN PyInt(min(5, familiarity_ + 2))
    ELSE IF action = PyStr(<<"+">>) THEN PyInt(5)
    ELSE action

\* faulty variant: every decision records a familiarity update
always_changed(new, familiarity_) == TRUE

\* `if new_fam != familiarity`, for an int new familiarity
fam_changed(new, familiarity_) == new # familiarity_

\* faulty variant: a familiarity that did not rise counts as familiar
not_increased(new, familiarity_) == new <= familiarity_

\* faulty variant: only a decrease counts as familiar
decreased_only(new, familiarity_) == new < familiarity_

\* the value qa_interface returns, for an int new familiarity
familiar(new, familiarity_) == new = 1 \/ new < familiarity_

\* what happens when PronunciationLoader.load looks for the audio of a
\* word: the file is in the cache; it is fetched and written; a request
\* fails; the dictionary has no audio for the word (a list of suggestions,
\* or entries without sound); the cache file cannot be written
LoadEvents == {"cached", "fetched", "RequestException", "no_audio", "OSError"}

\* PronunciationLoader.load: "None" when it returns the path of the file,
\* else what it raises.  `except (requests.RequestException, TypeError)`
\* turns a failed request and a reply without entries into
\* PronunciationLoadingError; the OSError of open(cachefile, 'wb') is
\* neither
load(event) ==
    IF event \in {"cached", "fetched"} THEN "None"
    ELSE IF event \in {"RequestException", "no_audio"} THEN "PronunciationLoadingError"
    ELSE event

\* pronounce.load_pronunciation: the loop over the words catches
\* PronunciationLoadingError only
RECURSIVE load_pronunciation(_, _)
load_pronunciation(words_, events) ==
    IF words_ = <<>> THEN [prs |-> {}, failed |-> {}, raised |-> "None"]
    ELSE LET n == Len(words_)
             r == load_pronunciation(SubSeq(words_, 1, n - 1), events)
             e == load(events[n])
         IN  IF r.raised # "None" THEN r
             ELSE IF e = "None" THEN [r EXCEPT !.prs = @ \cup {words_[n]}]
             ELSE IF e = "PronunciationLoadingError" THEN [r EXCEPT !.failed = @ \cup {words_[n]}]
             ELSE [r EXCEPT !.raised = e]

\* the audio player on the machine: mpg123, QuickTime Player through
\* osascript, or neither
Players == {"mpg123", "osascript", "missing"}

\* pronounce.get_pronounce_process: what subprocess.Popen raises
get_pronounce_process(player) == IF player = "missing" THEN "FileNotFoundError" ELSE "None"

\* what the user can type at the action prompt
InputTexts == {<<>>, <<".">>, <<"-">>, <<"=">>, <<"+">>, <<"1">>, <<"3">>, <<"5">>, <<"0">>, <<"?">>, <<"x">>, <<".", "-">>, <<"1", "2">>, <<"+", "1">>, <<"=", "+", "1">>}

\* the options of the command
RunArgs == {[total |-> 3, min |-> 0, pronounce |-> FALSE], [total |-> 1, min |-> 2, pronounce |-> FALSE], [total |-> 0, min |-> -1, pronounce |-> FALSE], [total |-> 2, min |-> 0, pronounce |-> TRUE]}

\* the stores a run starts from: those of the fixture, and one left by
\* earlier reviews, with familiarities 2 and 3
RunWords == InitWords \cup {("foo" :> [Foo EXCEPT !.familiarity = 2]) @@ ("baz" :> [Baz EXCEPT !.familiarity = 3])}

\* get_all_fam(): the rows of table words, in arbitrary order
word_arrays(w) == {a \in [1..Cardinality(DOMAIN w) -> DOMAIN w] : \A x, y \in 1..Cardinality(DOMAIN w) : x # y => a[x] # a[y]}

RunInit ==
    /\ words \in RunWords
    /\ memo \in InitMemos
    /\ foreign_keys = FALSE
    /\ IdleDb
    /\ IdleBook
    /\ IdleSampler
    /\ pc = "start"
    /\ \E a \in RunArgs : total_sample = a.total /\ min_sample = a.min /\ do_pronounce = a.pronounce
    /\ prs = {}
    /\ load_failed = {}
    /\ today = 2
    /\ sampled_words = <<>>
    /\ qi = 0
    /\ unfamiliar_words = <<>>
    /\ familiarity = 0
    /\ fam_change = PyStr(<<>>)
    /\ reviewed = <<>>
    /\ interrupt = "None"
    /\ interrupted_at = "-"
    /\ exit_status = -1
    /\ stderr = <<>>

\* an exception other than an interruption leaves the scope: __exit__ gets
\* it, the except clause of sample() does not catch it
Crash(exc) ==
    /\ __exit__(exc)
    /\ pc' = "done"
    /\ exit_status' = 1
    /\ stderr' = <<"Traceback", exc>>

\* VocabBook(dbfile): the session connects to the database file
RunConstruct ==
    /\ pc = "start"
    /\ __init__("Path")
    /\ pc' = "constructed"
    /\ UNCHANGED <<run_vars, sampler_vars, call>>

RunEnter ==
    /\ pc = "constructed"
    /\ __enter__
    /\ pc' = "entered"
    /\ UNCHANGED <<run_vars, sampler_vars, call>>

\* get_all_fam, sample_vocab; prs = {} when the pronunciation is not loaded
RunSample ==
    /\ pc = "entered"
    /\ \E a \in word_arrays(words) :
        LET fam_ == [i \in 1..Len(a) |-> words[a[i]].familiarity]
        IN  \E gg \in [1..Len(a) -> Noise] :
                \E p \in argsort(perturbed(fam_, gg)) :
                    \E q \in Permutations(1..n_sampled(fam_, total_sample, min_sample)) :
                        LET r == sample_vocab(Len(a), fam_, total_sample, min_sample, gg, p, q)
                        IN  sampled_words' = [i \in 1..Len(r.j) |-> a[r.j[i]]]
    /\ qi' = 1
    /\ pc' = IF do_pronounce THEN "load" ELSE IF sampled_words' = <<>> THEN "review" ELSE "qa_anykey"
    /\ UNCHANGED <<store_vars, book_vars, sampler_vars, call>>
    /\ UNCHANGED <<total_sample, min_sample, today, do_pronounce, prs, load_failed, unfamiliar_words, familiarity, fam_change, reviewed, interrupt, interrupted_at, exit_status, stderr>>

\* sample(): cachedir.mkdir and pronounce.load_pronunciation(sampled_words,
\* api_key, cachedir); an exception other than PronunciationLoadingError
\* leaves load_pronunciation and the with block
RunLoadPronunciation ==
    /\ pc = "load"
    /\ \E events \in [1..Len(sampled_words) -> LoadEvents] :
        LET r == load_pronunciation(sampled_words, events)
        IN  IF r.raised # "None"
            THEN /\ Crash(r.raised)
                 /\ UNCHANGED <<prs, load_failed>>
            ELSE /\ prs' = r.prs
                 /\ load_failed' = r.failed
                 /\ pc' = IF sampled_words = <<>> THEN "review" ELSE "qa_anykey"
                 /\ UNCHANGED <<store_vars, book_vars, exit_status, stderr>>
    /\ UNCHANGED <<sampler_vars, call>>
    /\ UNCHANGED <<total_sample, min_sample, today, do_pronounce, sampled_words, qi, unfamiliar_words, familiarity, fam_change, reviewed, interrupt, interrupted_at>>

\* qa_interface from its start to get_word_def: for a word in prs
\* pronounce.get_pronounce_process starts the player, and Popen raises
\* FileNotFoundError when the player's program is not installed; then
\* input('[any key] ') returns
QaAnyKey ==
    /\ pc = "qa_anykey"
    /\ \E player \in IF sampled_words[qi] \in prs THEN Players ELSE {"none"} :
        IF get_pronounce_process(player) # "None"
        THEN /\ Crash(get_pronounce_process(player))
             /\ UNCHANGED familiarity
        ELSE /\ familiarity' = find_word(words, sampled_words[qi])[1].familiarity
             /\ pc' = "qa_action"
             /\ UNCHANGED <<store_vars, book_vars, exit_status, stderr>>
    /\ UNCHANGED <<sampler_vars, call>>
    /\ UNCHANGED <<total_sample, min_sample, today, do_pronounce, prs, load_failed, sampled_words, qi, unfamiliar_words, fam_change, reviewed, interrupt, interrupted_at>>

\* qa_interface: fam_change = input(...) and the test of the while loop: a
\* rejected text repeats the prompt
QaPrompt ==
    /\ pc = "qa_action"
    /\ \E text \in InputTexts :
        /\ fam_change' = PyStr(text)
        /\ pc' = IF rejected(text) THEN "qa_action" ELSE "qa_convert"
    /\ UNCHANGED <<store_vars, book_vars, sampler_vars, call>>
    /\ UNCHANGED <<total_sample, min_sample, today, do_pronounce, prs, load_failed, sampled_words, qi, unfamiliar_words, familiarity, reviewed, interrupt, interrupted_at, exit_status, stderr>>

\* qa_interface: `if fam_change not in '.-=+': fam_change = min(5, max(0,
\* int(fam_change)))`; int() of a text that is no number raises ValueError
QaConvert ==
    /\ pc = "qa_convert"
    /\ IF is_number(fam_change.s) /\ ~IsIntLiteral(fam_change.s)
       THEN /\ Crash("ValueError")
            /\ UNCHANGED <<sampler_vars, call>>
            /\ UNCHANGED <<total_sample, min_sample, today, do_pronounce, prs, load_failed, sampled_words, qi, unfamiliar_words, familiarity, fam_change, reviewed, interrupt, interrupted_at>>
       ELSE /\ fam_change' = IF is_number(fam_change.s) THEN PyInt(min(5, max(0, int(fam_change.s)))) ELSE fam_change
            /\ pc' = "qa_memo"
            /\ UNCHANGED <<store_vars, book_vars, sampler_vars, call>>
            /\ UNCHANGED <<total_sample, min_sample, today, do_pronounce, prs, load_failed, sampled_words, qi, unfamiliar_words, familiarity, reviewed, interrupt, interrupted_at, exit_status, stderr>>

\* qa_interface: book.add_memo(word, today, familiarity, fam_change)
QaAddMemo ==
    /\ pc = "qa_memo"
    /\ add_memo(sampled_words[qi], today, familiarity, fam_change)
    /\ pc' = "qa_resolve"
    /\ UNCHANGED <<run_vars, sampler_vars, call>>

\* qa_interface from `if fam_change == '.'` to its return, and the loop of
\* sample() that collects the unfamiliar words.  A new familiarity that is a
\* str is passed to add_fam_update, then `new_fam < familiarity` raises
\* TypeError and the session is left with it: the book and its pending
\* lists are dropped, so the str entry is not kept here.
QaResolve ==
    /\ pc = "qa_resolve"
    /\ LET new == new_fam(familiarity, fam_change)
       IN  IF new.t = "str"
           THEN /\ Crash("TypeError")
                /\ UNCHANGED <<sampler_vars, call>>
                /\ UNCHANGED <<total_sample, min_sample, today, do_pronounce, prs, load_failed, sampled_words, qi, unfamiliar_words, familiarity, fam_change, reviewed, interrupt, interrupted_at>>
           ELSE /\ IF fam_changed(new.n, familiarity)
                   THEN add_fam_update(new.n, sampled_words[qi])
                   ELSE UNCHANGED <<store_vars, book_vars>>
                /\ unfamiliar_words' = IF familiar(new.n, familiarity) THEN unfamiliar_words ELSE Append(unfamiliar_words, sampled_words[qi])
                /\ IF qi < Len(sampled_words)
                   THEN qi' = qi + 1 /\ pc' = "qa_anykey"
                   ELSE qi' = qi /\ pc' = "review"
                /\ UNCHANGED <<sampler_vars, call>>
                /\ UNCHANGED <<total_sample, min_sample, today, do_pronounce, prs, load_failed, sampled_words, familiarity, fam_change, reviewed, interrupt, interrupted_at, exit_status, stderr>>

\* faulty variant: the review-only pass records a memo entry for the word
ReviewAndMemo ==
    /\ pc = "review"
    /\ Len(reviewed) < Len(unfamiliar_words)
    /\ reviewed' = Append(reviewed, unfamiliar_words[Len(reviewed) + 1])
    /\ add_memo(unfamiliar_words[Len(reviewed) + 1], today, familiarity, PyStr(<<".">>))
    /\ UNCHANGED <<pc, sampler_vars, call>>
    /\ UNCHANGED <<total_sample, min_sample, today, do_pronounce, prs, load_failed, sampled_words, qi, unfamiliar_words, familiarity, fam_change, interrupt, interrupted_at, exit_status, stderr>>

\* review_interface: one iteration of its loop; it calls get_word_def only
ReviewWord ==
    /\ pc = "review"
    /\ Len(reviewed) < Len(unfamiliar_words)
    /\ reviewed' = Append(reviewed, unfamiliar_words[Len(reviewed) + 1])
    /\ UNCHANGED <<store_vars, book_vars, pc, sampler_vars, call>>
    /\ UNCHANGED <<total_sample, min_sample, today, do_pronounce, prs, load_failed, sampled_words, qi, unfamiliar_words, familiarity, fam_change, interrupt, interrupted_at, exit_status, stderr>>

\* the with block ends: __exit__(None, None, None); an IntegrityError of the
\* flush is not caught by sample()
RunExit ==
    /\ pc = "review"
    /\ Len(reviewed) = Len(unfamiliar_words)
    /\ __exit__("None")
    /\ pc' = "done"
    /\ exit_status' = IF raised' = "None" THEN 0 ELSE 1
    /\ stderr' = IF raised' = "None" THEN <<>> ELSE <<"Traceback", raised'>>
    /\ UNCHANGED <<sampler_vars, call>>
    /\ UNCHANGED <<total_sample, min_sample, today, do_pronounce, prs, load_failed, sampled_words, qi, unfamiliar_words, familiarity, fam_change, reviewed, interrupt, interrupted_at>>

\* the positions inside the with block
InScope == {"entered", "load", "qa_anykey", "qa_action", "qa_convert", "qa_memo", "qa_resolve", "review"}

\* the positions that wait in input()
AtInput == {"qa_anykey", "qa_action"}

\* `except (KeyboardInterrupt, EOFError)`: click.echo('Aborted', err=True);
\* sys.exit(130)
aborted ==
    /\ stderr' = <<"Aborted">>
    /\ exit_status' = 130
    /\ pc' = "done"

\* KeyboardInterrupt anywhere in the try block, EOFError from input():
\* inside the with block __exit__ gets the exception first
Interrupt ==
    /\ \E exc \in {"KeyboardInterrupt", "EOFError"} :
        /\ pc \in {"start", "constructed"} \cup InScope
        /\ exc = "EOFError" => pc \in AtInput
        /\ interrupt' = exc
        /\ IF pc \in InScope THEN __exit__(exc) ELSE UNCHANGED <<store_vars, book_vars>>
    /\ interrupted_at' = pc
    /\ aborted
    /\ UNCHANGED <<sampler_vars, call>>
    /\ UNCHANGED <<total_sample, min_sample, today, do_pronounce, prs, load_failed, sampled_words, qi, unfamiliar_words, familiarity, fam_change, reviewed>>

RunNext ==
    \/ RunConstruct
    \/ RunEnter
    \/ RunSample
    \/ RunLoadPronunciation
    \/ QaAnyKey
    \/ QaPrompt
    \/ QaConvert
    \/ QaAddMemo
    \/ QaResolve
    \/ ReviewWord
    \/ RunExit
    \/ Interrupt

RunSpec == RunInit /\ [][RunNext]_vars

----
(* Properties of the review run *)

\* C5: an interruption raised at any point of the review run ends it with
\* message 'Aborted' and exit status 130, and the store is as it was before
\* the run: no part of the pending updates and memo entries is written.
C5_InterruptedRunWritesNothing ==
    (pc = "done" /\ interrupt # "None") =>
        /\ stderr = <<"Aborted">>
        /\ exit_status = 130
        /\ words = words0
        /\ memo = memo0

\* interrupted after the memo entry of the second word was recorded and
\* before its familiarity update, with an update of the first word pending
C5_Witness ==
    /\ pc = "done" /\ interrupt = "KeyboardInterrupt"
    /\ interrupted_at = "qa_resolve"
    /\ Len(_memo) = 2
    /\ Len(_updated_word_fam) = 1
    /\ update_word_familiarities(words0, _updated_word_fam) # words0
    /\ new_fam(familiarity, fam_change) # PyInt(familiarity)

----
(* Properties of a review decision (qa_interface) *)

\* the step in which input() returns a text at the action prompt
PromptStep == pc = "qa_action" /\ pc' \in {"qa_action", "qa_convert"}

\* the step that converts an accepted text
ConvertStep == pc = "qa_convert" /\ pc' = "qa_memo"

\* the step that records the memo entry of the decision
MemoStep == pc = "qa_memo" /\ pc' = "qa_resolve"

\* the step in which qa_interface returns
DecisionResolved == pc = "qa_resolve" /\ pc' \in {"qa_anykey", "review"}

\* the decision under review records new as the word's new familiarity: a
\* pending update when it differs from the current one, nothing otherwise
FamUpdateRecorded(new) ==
    IF new = familiarity
    THEN _updated_word_fam' = _updated_word_fam
    ELSE _updated_word_fam' = Append(_updated_word_fam, [familiarity |-> new, word |-> sampled_words[qi]])

\* the new familiarity the decision recorded
RecordedFam == IF _updated_word_fam' = _updated_word_fam THEN familiarity ELSE _updated_word_fam'[Len(_updated_word_fam')].familiarity

\* the word under review is queued for the review-only pass
Queued == unfamiliar_words' = Append(unfamiliar_words, sampled_words[qi])

Symbols == {<<".">>, <<"-">>, <<"=">>, <<"+">>}

\* the pending memo entries, as a set
PendingMemo == {_memo[k] : k \in 1..Len(_memo)}

MemoOf(word, orig_familiarity, action) == [word |-> word, date |-> today, orig_familiarity |-> orig_familiarity, action |-> action]

\* C12: for every current familiarity f in 1..5 a decision gives, as the new
\* familiarity, f for action '.', max(1, f-1) for '-', min(5, f+2) for '='
\* and 5 for '+'.
C12_TransitionTable ==
    [][(DecisionResolved /\ fam_change.t = "str" /\ familiarity \in 1..5) =>
        LET f == familiarity
            a == fam_change.s
        IN  /\ a \in Symbols
            /\ a = <<".">> => FamUpdateRecorded(f)
            /\ a = <<"-">> => FamUpdateRecorded(IF f - 1 >= 1 THEN f - 1 ELSE 1)
            /\ a = <<"=">> => FamUpdateRecorded(IF f + 2 <= 5 THEN f + 2 ELSE 5)
            /\ a = <<"+">> => FamUpdateRecorded(5)]_vars

\* '-' at 1 and '=' at 5 changed nothing, '=' at 4 gave 5
C12_Witness ==
    /\ pc = "review"
    /\ {MemoOf("baz", 1, PyStr(<<"-">>)), MemoOf("bar", 5, PyStr(<<"=">>)), MemoOf("foo", 4, PyStr(<<"=">>))} \subseteq PendingMemo
    /\ _updated_word_fam = <<[familiarity |-> 5, word |-> "foo"]>>

\* C13: qa_interface returns true (the word is not queued for the review
\* pass) if and only if the new familiarity is 1 or is less than the
\* familiarity before the action.
C13_FamiliarIff ==
    [][DecisionResolved =>
        IF RecordedFam = 1 \/ RecordedFam < familiarity
        THEN unfamiliar_words' = unfamiliar_words
        ELSE Queued]_vars

\* '.' at 1 and the digit 3 at 4 were familiar, '=' at 5 was not
C13_Witness ==
    /\ pc = "review"
    /\ {MemoOf("baz", 1, PyStr(<<".">>)), MemoOf("foo", 4, PyInt(3)), MemoOf("bar", 5, PyStr(<<"=">>))} \subseteq PendingMemo
    /\ unfamiliar_words = <<"bar">>

\* C14 as stated: action '.' leaves the familiarity unchanged and queues
\* the word as unfamiliar for every familiarity in 1..5, 1 included.
C14_DotAlwaysUnfamiliar ==
    [][(DecisionResolved /\ fam_change = PyStr(<<".">>) /\ familiarity \in 1..5) =>
        (FamUpdateRecorded(familiarity) /\ Queued)]_vars

\* C14 amended: action '.' leaves the familiarity unchanged for every
\* familiarity in 1..5; the word is queued as unfamiliar when the
\* familiarity is 2..5, and is familiar (not queued) when it is 1.
C14_DotUnfamiliarAboveOne ==
    [][(DecisionResolved /\ fam_change = PyStr(<<".">>) /\ familiarity \in 1..5) =>
        /\ FamUpdateRecorded(familiarity)
        /\ IF familiarity = 1 THEN unfamiliar_words' = unfamiliar_words ELSE Queued]_vars

\* '.' at 1 was familiar, '.' at 4 and at 5 were queued
C14_Witness ==
    /\ pc = "review"
    /\ {MemoOf("baz", 1, PyStr(<<".">>)), MemoOf("foo", 4, PyStr(<<".">>)), MemoOf("bar", 5, PyStr(<<".">>))} \subseteq PendingMemo
    /\ _updated_word_fam = <<>>
    /\ Len(unfamiliar_words) = 2
    /\ \A k \in 1..2 : unfamiliar_words[k] # "baz"

\* the texts of one digit from d1 to d2
DigitTexts(d1, d2) == {<<Digits[k + 1]>> : k \in d1..d2}

\* what a decision by a number does once its text is accepted: the text
\* of one digit becomes that number, the memo entry records the number as
\* the action, and the number is the new familiarity
NumberOverrides ==
    /\ (ConvertStep /\ fam_change.s \in DigitTexts(0, 5)) => fam_change' = PyInt(DigitValue(fam_change.s[1]))
    /\ (MemoStep /\ fam_change.t = "int") => _memo' = Append(_memo, MemoOf(sampled_words[qi], familiarity, fam_change))
    /\ (DecisionResolved /\ fam_change.t = "int") => FamUpdateRecorded(fam_change.n)

\* C15 as stated: each digit 0..5 is an accepted action, its new familiarity
\* is the digit, and the memo entry of the decision records the digit.
C15_DigitsZeroToFive ==
    [][/\ (PromptStep /\ fam_change'.s \in DigitTexts(0, 5)) => pc' = "qa_convert"
       /\ NumberOverrides]_vars

\* C15 amended: each digit 1..5 is an accepted action, its new familiarity
\* is the digit, and the memo entry of the decision records the digit; the
\* digit 0 is rejected: the prompt is repeated and nothing is recorded.
C15_DigitsOneToFive ==
    [][/\ (PromptStep /\ fam_change'.s \in DigitTexts(1, 5)) => pc' = "qa_convert"
       /\ (PromptStep /\ fam_change'.s = <<"0">>) => (pc' = "qa_action" /\ UNCHANGED <<_memo, _updated_word_fam, unfamiliar_words, qi>>)
       /\ NumberOverrides]_vars

\* the first word was decided by the digit 3 at familiarity 4, and the
\* prompt of the second word is repeated after the digit 0
C15_Witness ==
    /\ pc = "qa_action"
    /\ fam_change = PyStr(<<"0">>)
    /\ qi = 2
    /\ _memo = <<MemoOf("foo", 4, PyInt(3))>>
    /\ _updated_word_fam = <<[familiarity |-> 3, word |-> "foo"]>>

\* C16: a text that is not one symbol or one digit never leaves the prompt
\* loop as an action, whatever its length, and the prompt never makes the
\* run end with an error.
C16_InvalidInputRejected ==
    /\ pc \in {"qa_convert", "qa_memo", "qa_resolve"} => (fam_change.t = "str" => fam_change.s \in Symbols \cup DigitTexts(0, 9))
    /\ pc = "done" => raised \notin {"ValueError", "TypeError"}

\* C17: every decision appends one memo entry, made of the word, the
\* familiarity before the action and the accepted action (not the new
\* familiarity); no other step touches the pending memo entries; when the
\* n-th decision of the run is resolved they are n, in review order.
C17_OneMemoPerDecision ==
    [][/\ MemoStep => _memo' = Append(_memo, MemoOf(sampled_words[qi], words[sampled_words[qi]].familiarity, fam_change))
       /\ ~MemoStep => _memo' = _memo
       /\ DecisionResolved =>
            /\ Len(_memo) = qi
            /\ \A k \in 1..qi : _memo[k].word = sampled_words[k] /\ _memo[k].orig_familiarity = words[sampled_words[k]].familiarity
            /\ _memo[qi].action = fam_change
            /\ fam_change \in {PyStr(a) : a \in Symbols} \cup {PyInt(d) : d \in 1..5}]_vars

\* three decisions: '-' at 4 recorded '-' and not 3, '.' recorded without
\* an update, '+' at 5
C17_Witness ==
    /\ pc = "review"
    /\ Len(_memo) = 3
    /\ \A k \in 1..3 : _memo[k].word = sampled_words[k]
    /\ {MemoOf("foo", 4, PyStr(<<"-">>)), MemoOf("baz", 1, PyStr(<<".">>)), MemoOf("bar", 5, PyStr(<<"+">>))} = PendingMemo
    /\ _updated_word_fam = <<[familiarity |-> 3, word |-> "foo"]>>

----
(* Properties of review runs on the store *)

\* C22: a review run that starts from a store whose familiarities are all
\* in 1..5 leaves them all in 1..5, at every point of the run and however
\* the run ends (normal exit, interruption, error); the pending updates are
\* in 1..5 too.  The stores a run starts from cover every familiarity 1..5,
\* so the same holds after any sequence of runs.
C22_FamiliarityInRange ==
    /\ \A w \in DOMAIN words : words[w].familiarity \in 1..5
    /\ \A k \in 1..Len(_updated_word_fam) : _updated_word_fam[k].familiarity \in 1..5

\* a run that ended normally and wrote the lowest and the highest score:
\* '-' at 2 and '=' at 4 are flushed as 1 and 5
C22_Witness ==
    /\ pc = "done" /\ outcome = "flushed"
    /\ \E w1, w2 \in DOMAIN words :
        /\ words0[w1].familiarity > 1 /\ words[w1].familiarity = 1
        /\ words0[w2].familiarity = 4 /\ words[w2].familiarity = 5

\* C23: a review run that reaches the end of its with block without an
\* exception gets its pending familiarity updates and memo entries
\* persisted, also when the store already holds a memo entry of the same
\* day for a word it reviewed.
C23_NormalRunPersisted ==
    (pc = "done" /\ exc_type = "None") =>
        /\ outcome = "flushed" /\ raised = "None" /\ exit_status = 0
        /\ words = update_word_familiarities(words0, _updated_word_fam)
        /\ \A k \in 1..Len(_memo) : \E r \in memo \ memo0 : r.word = _memo[k].word /\ fromisoformat(r.date) = today

\* C24: inside the scope of a session the store is as it was at entry,
\* whatever updates and memo entries are pending; the familiarity that
\* get_word_def reads for the word under review is the one stored at
\* entry, and so is the original familiarity of every pending memo entry.
C24_StoreUntouchedInScope ==
    pc \in InScope =>
        /\ words = words0
        /\ memo = memo0
        /\ pc \in {"qa_action", "qa_convert", "qa_memo", "qa_resolve"} => familiarity = words0[sampled_words[qi]].familiarity
        /\ \A k \in 1..Len(_memo) : _memo[k].orig_familiarity = words0[_memo[k].word].familiarity

\* the third word is read while updates of the first two are pending that
\* change the store when flushed
C24_Witness ==
    /\ pc = "qa_action" /\ qi = 3
    /\ Len(_updated_word_fam) = 2 /\ Len(_memo) = 2
    /\ \A k \in 1..2 : _updated_word_fam[k].familiarity # words[_updated_word_fam[k].word].familiarity
    /\ familiarity = words[sampled_words[3]].familiarity

\* the decisions that leave the familiarity as it is: '.', '-' at 1, '='
\* or '+' at 5, a number equal to the current score
NoChange(f, action) ==
    \/ action = PyStr(<<".">>)
    \/ action = PyStr(<<"-">>) /\ f = 1
    \/ action \in {PyStr(<<"=">>), PyStr(<<"+">>)} /\ f = 5
    \/ action = PyInt(f)

\* C25: a decision adds one pending familiarity update, for the word under
\* review and with a familiarity other than the current one, when its
\* action changes the familiarity, and none when it does not; in both
\* cases the memo entry of the decision is recorded.
C25_UpdateIffChanged ==
    [][DecisionResolved =>
        /\ NoChange(familiarity, fam_change) <=> _updated_word_fam' = _updated_word_fam
        /\ ~NoChange(familiarity, fam_change) =>
            /\ Len(_updated_word_fam') = Len(_updated_word_fam) + 1
            /\ SubSeq(_updated_word_fam', 1, Len(_updated_word_fam)) = _updated_word_fam
            /\ _updated_word_fam'[Len(_updated_word_fam')].word = sampled_words[qi]
            /\ _updated_word_fam'[Len(_updated_word_fam')].familiarity # familiarity
        /\ _memo' = _memo
        /\ _memo[Len(_memo)] = MemoOf(sampled_words[qi], familiarity, fam_change)]_vars

\* number 5 at 5 and '-' at 1 left a memo entry each and no update, '=' at
\* 4 left a memo entry and the update to 5
C25_Witness ==
    /\ pc = "review"
    /\ PendingMemo = {MemoOf("bar", 5, PyInt(5)), MemoOf("baz", 1, PyStr(<<"-">>)), MemoOf("foo", 4, PyStr(<<"=">>))}
    /\ Len(_memo) = 3
    /\ _updated_word_fam = <<[familiarity |-> 5, word |-> "foo"]>>

\* the decisions whose outcome is true (familiar): '-' at any score, '.'
\* at 1, a number that is 1 or below the score
FamiliarOutcome(f, action) ==
    \/ action = PyStr(<<"-">>)
    \/ action = PyStr(<<".">>) /\ f = 1
    \/ action.t = "int" /\ (action.n = 1 \/ action.n < f)

\* the words of the decisions so far whose outcome is false, in order
UnfamiliarDecided ==
    LET d == SelectSeq(_memo, LAMBDA e : ~FamiliarOutcome(e.orig_familiarity, e.action))
    IN  [k \in 1..Len(d) |-> d[k].word]

\* the step that presents a word for a decision
Presented == pc = "qa_anykey" /\ pc' = "qa_action"

\* a step of the review-only pass
ReviewStep == pc = "review" /\ pc' = "review"

\* C28: the words are presented at positions 1, 2, ... of the sampled
\* list, each once: the position moves on by one when a decision is
\* resolved and at no other step, and the pass starts after the last one.
\* When the review-only pass starts, its list is the words of the
\* decisions with outcome false, in the order of the decisions.  A step of
\* the pass shows the next word of that list and changes neither the
\* pending memo entries, nor the pending updates, nor the store.
C28_ReviewPass ==
    [][/\ Presented => (qi \in 1..Len(sampled_words) /\ Len(_memo) = qi - 1 /\ UNCHANGED <<qi, sampled_words>>)
       /\ DecisionResolved =>
            /\ UNCHANGED sampled_words
            /\ IF qi < Len(sampled_words) THEN qi' = qi + 1 /\ pc' = "qa_anykey" ELSE pc' = "review"
       /\ (pc \in InScope \ {"entered"} /\ ~DecisionResolved) => UNCHANGED <<qi, sampled_words>>
       /\ pc' = "review" =>
            /\ Len(_memo') = Len(sampled_words')
            /\ \A k \in 1..Len(sampled_words') : _memo'[k].word = sampled_words'[k]
            /\ unfamiliar_words' = UnfamiliarDecided'
       /\ ReviewStep =>
            /\ Len(reviewed) < Len(unfamiliar_words)
            /\ reviewed' = Append(reviewed, unfamiliar_words[Len(reviewed) + 1])
            /\ UNCHANGED <<_memo, _updated_word_fam, words, memo, unfamiliar_words>>
       /\ (pc = "review" /\ pc' = "done" /\ exc_type' = "None") => reviewed = unfamiliar_words]_vars

\* three words were decided, the second with outcome true, and the pass
\* showed the first and the third
C28_Witness ==
    /\ pc = "review"
    /\ Len(sampled_words) = 3
    /\ FamiliarOutcome(_memo[2].orig_familiarity, _memo[2].action)
    /\ unfamiliar_words = <<sampled_words[1], sampled_words[3]>>
    /\ reviewed = unfamiliar_words
    /\ Len(_updated_word_fam) >= 1

\* C29: once load_pronunciation was called and the run was not interrupted
\* before it returned, every sampled word is either in the mapping or was
\* reported as failed, never both; and no run ends with an error of the
\* pronunciation, neither of loading nor of playing.
C29_PronunciationFailureHarmless ==
    /\ (do_pronounce /\ pc \notin {"start", "constructed", "entered", "load"} /\ interrupted_at \notin {"start", "constructed", "entered", "load"}) =>
        /\ prs \cup load_failed = {sampled_words[k] : k \in 1..Len(sampled_words)}
        /\ prs \cap load_failed = {}
    /\ pc = "done" => raised \notin {"OSError", "FileNotFoundError"}

====
